---- MODULE Spec2Model ----
(***************************************************************************)
(* A model of the globe object of globes.js (standardGlobe): the relief    *)
(* image loader, the relief renderer with its cache, and the drag/zoom     *)
(* manipulator.                                                            *)
(***************************************************************************)
EXTENDS Integers, Sequences, FiniteSets, TLC

\* Number of loadReliefImages calls explored.
MaxCalls == 2

\* Number of manipulator() calls explored.
MaxSessions == 2

VARIABLES
    reliefHi,       \* {img, data, loaded} of the high-resolution tier
    reliefLo,       \* {img, data, loaded} of the low-resolution tier
    images,         \* every window.Image created so far, in creation order
    calls,          \* one closure {loadedCount, callback} per loadReliefImages call
    useReliefLo,    \* the tier flag
    reliefCanvas,   \* the output canvas (element, size, pixels)
    reliefFastCanvas, \* the downsampled working canvas (element, size)
    reliefCache,    \* cache key -> ImageData of a full-fidelity composite
    lastCall,       \* observer: the most recent relief operation and what it did
    lastHi,         \* observer: arguments of the most recent full-fidelity render
    rendered,       \* observer: the (projection, view) rendered at full fidelity since the
                    \* cache was last empty
    sinceClear,     \* observer: no full-fidelity render since the last clearReliefCache
    variant,        \* the registered variant the globe was built from
    projection,     \* the globe's d3 projection: rotate, scale, translate, precision
    sessions,       \* the closures returned by manipulator(), in creation order
    misuse,         \* observer: sessions overlapped, or end() was called on an ended one
    lastOp,         \* observer: the most recent call on the globe and its arguments
    fitted,         \* observer: the fit(view) calls: the view, the scale returned, and
                    \* whether the projection had changed since construction
    rect            \* observer: the most recent clampedBounds call and its result

loadVars == <<reliefHi, reliefLo, images, calls>>

reliefVars == <<useReliefLo, reliefCanvas, reliefFastCanvas, reliefCache,
                lastCall, lastHi, rendered, sinceClear>>

globeVars == <<variant, projection, sessions, misuse, lastOp, fitted, rect>>

vars == <<reliefHi, reliefLo, images, calls, useReliefLo, reliefCanvas, reliefFastCanvas,
          reliefCache, lastCall, lastHi, rendered, sinceClear,
          variant, projection, sessions, misuse, lastOp, fitted, rect>>

Tiers == {"hi", "lo"}

\* The relief entry a tier name stands for.
Relief(t) == IF t = "hi" THEN reliefHi ELSE reliefLo

\* standardGlobe(): reliefHi / reliefLo start as { img: null, data: null, loaded: false }.
\* img is the index in images of the Image held (0 for null); data is "null" before a
\* decode, "pixels" for the decoded raster, "blank" for a transparent buffer.
NewRelief == [img |-> 0, data |-> "null", loaded |-> FALSE]

InitLoad ==
    /\ reliefHi = NewRelief
    /\ reliefLo = NewRelief
    /\ images = <<>>
    /\ calls = <<>>

\* checkDone() with the join firing on the first completion.
checkDoneEarly(call) ==
    LET n == call.loadedCount + 1
    IN  [call EXCEPT !.loadedCount = n,
                     !.invoked = IF n >= 1 /\ call.callback THEN @ + 1 ELSE @]

\* checkDone(): loadedCount++; if (loadedCount === 2 && callback) callback();
\* invoked counts the invocations of the callback.
checkDone(call) ==
    LET n == call.loadedCount + 1
    IN  [call EXCEPT !.loadedCount = n,
                     !.invoked = IF n = 2 /\ call.callback THEN @ + 1 ELSE @]

\* One branch of loadReliefImages: a tier that is not loaded gets a new Image whose
\* src is set (a fetch starts); a loaded tier calls checkDone() at once.
StartsFetch(r) == ~r.loaded

\* img.src = "relief.jpg" / "relief-low.jpg" on a new Image: the fetch starts. When the
\* document already holds the file (an earlier Image of the tier has arrived) the browser
\* may complete the new Image from it at once, and queue its load event.
AfterSrc(t) ==
    IF \E j \in DOMAIN images : images[j].tier = t /\ images[j].state # "loading"
    THEN {"loading", "complete"}
    ELSE {"loading"}

\* loadReliefImages(callback): callback is TRUE when a function is passed.
loadReliefImages(callback) ==
    \E hiState \in AfterSrc("hi"), loState \in AfterSrc("lo") :
    LET c     == Len(calls) + 1
        hiNew == StartsFetch(reliefHi)
        loNew == StartsFetch(reliefLo)
        hiImg == IF hiNew THEN <<[tier |-> "hi", call |-> c, state |-> hiState]>> ELSE <<>>
        loImg == IF loNew THEN <<[tier |-> "lo", call |-> c, state |-> loState]>> ELSE <<>>
        c0    == [loadedCount |-> 0, callback |-> callback, invoked |-> 0]
        c1    == IF hiNew THEN c0 ELSE checkDone(c0)
        c2    == IF loNew THEN c1 ELSE checkDone(c1)
    IN  /\ calls' = Append(calls, c2)
        /\ images' = images \o hiImg \o loImg
        /\ reliefHi' = IF hiNew THEN [reliefHi EXCEPT !.img = Len(images) + 1] ELSE reliefHi
        /\ reliefLo' = IF loNew THEN [reliefLo EXCEPT !.img = Len(images \o hiImg) + 1]
                                ELSE reliefLo
        /\ UNCHANGED <<reliefVars, globeVars>>

\* The browser finishes fetching image i: its pixels and size become available and
\* its load event is queued.
ImageArrives(i) ==
    /\ images[i].state = "loading"
    /\ images' = [images EXCEPT ![i].state = "complete"]
    /\ UNCHANGED <<reliefHi, reliefLo, calls>>
    /\ UNCHANGED <<reliefVars, globeVars>>

\* What the onload handler of a tier reads through self.relief<T>.img, the Image most
\* recently assigned to the tier (not necessarily the one whose event fired). A complete
\* image decodes to its pixels. An image still loading has either no size yet
\* (getImageData(0, 0, 0, 0) throws) or a size but no drawable pixels (drawImage draws
\* nothing and the buffer read back is transparent).
DecodeOutcomes(cur) ==
    IF cur.state = "loading" THEN {"threw", "blank"} ELSE {"pixels"}

\* img.onload of image i: decode self.relief<T>.img into a temporary canvas, store the
\* pixel buffer, set loaded, then checkDone() of the call that created image i.
onload(i) ==
    /\ images[i].state = "complete"
    /\ UNCHANGED <<reliefVars, globeVars>>
    /\ LET t == images[i].tier
           r == Relief(t)
       IN  \E outcome \in DecodeOutcomes(images[r.img]) :
             IF outcome = "threw"
             THEN /\ images' = [images EXCEPT ![i].state = "threw"]
                  /\ UNCHANGED <<reliefHi, reliefLo, calls>>
             ELSE /\ images' = [images EXCEPT ![i].state = "handled"]
                  /\ reliefHi' = IF t = "hi"
                                 THEN [reliefHi EXCEPT !.data = outcome, !.loaded = TRUE]
                                 ELSE reliefHi
                  /\ reliefLo' = IF t = "lo"
                                 THEN [reliefLo EXCEPT !.data = outcome, !.loaded = TRUE]
                                 ELSE reliefLo
                  /\ calls' = [calls EXCEPT ![images[i].call] = checkDone(@)]

----------------------------------------------------------------------------
(* The relief renderer *)

\* Math.round(n / d) for d > 0: the nearest integer, halves rounded up.
Round(n, d) == (2 * n + d) \div (2 * d)

Transparent == <<0, 0, 0, 0>>

\* The size of a tier's decoded image (relief.img.width, relief.img.height).
RasterSize(t) == IF t = "hi" THEN [width |-> 4, height |-> 2] ELSE [width |-> 2, height |-> 1]

\* relief.data[idx .. idx+3]: the RGBA of source pixel (ix, iy) of a tier. A "blank"
\* buffer is transparent black throughout.
RasterPixel(t, data, ix, iy) ==
    IF data = "blank" THEN Transparent
    ELSE LET n == iy * RasterSize(t).width + ix
         IN  <<(IF t = "hi" THEN 100 ELSE 200) + n, 10 + n, 20 + n,
               IF n % 3 = 0 THEN 255 ELSE IF n % 3 = 1 THEN 100 ELSE 0>>

\* Longitude folded into [-180, 180].
WrapLon(l) == IF l > 180 THEN l - 360 ELSE IF l < -180 THEN l + 360 ELSE l

\* Latitude folded into [-90, 90].
FoldLat(a) == IF a > 90 THEN 180 - a ELSE IF a < -90 THEN -180 - a ELSE a

\* projection.invert([sx, sy]): the [lon, lat] shown at a screen point, or <<>> (null)
\* when the point is off the globe. A plate-carree projection in whole degrees, with
\* scale in pixels per radian (57 degrees) and the rotation applied as two shifts.
invert(proj, sx, sy) ==
    LET lonRaw == ((sx - proj.translate[1]) * 57) \div proj.scale
        latRaw == ((proj.translate[2] - sy) * 57) \div proj.scale
    IN  IF lonRaw < -180 \/ lonRaw > 180 \/ latRaw < -90 \/ latRaw > 90
        THEN <<>>
        ELSE <<WrapLon(lonRaw - proj.rotate[1]), FoldLat(latRaw - proj.rotate[2])>>

\* The alpha copied as it is.
attenuateNone(a) == a

\* Math.round(relief.data[idx + 3] * 0.7): the output alpha. (Halves round up; of the
\* alphas 0..255, the double product falls just below a half for 45, 85, 165 and 175,
\* which no raster explored holds.)
attenuate(a) == Round(a * 7, 10)

\* The body of both pixel loops: the output RGBA for the screen point (sx, sy).
\*   ix = Math.round((lon + 180) / 360 * (relief.img.width - 1))
\*   iy = Math.round((90 - lat) / 180 * (relief.img.height - 1))
\*   out = [R, G, B, Math.round(A * 0.7)]; skipped pixels keep createImageData's zeros.
Composite(t, data, proj, sx, sy) ==
    LET lonlat == invert(proj, sx, sy)
        size   == RasterSize(t)
    IN  IF lonlat = <<>> THEN Transparent
        ELSE LET ix == Round((lonlat[1] + 180) * (size.width - 1), 360)
                 iy == Round((90 - lonlat[2]) * (size.height - 1), 180)
             IN  IF ix < 0 \/ ix >= size.width \/ iy < 0 \/ iy >= size.height
                 THEN Transparent
                 ELSE LET src == RasterPixel(t, data, ix, iy)
                      IN  <<src[1], src[2], src[3], attenuate(src[4])>>

\* The full-fidelity loop: outImg = createImageData(view.width, view.height), one
\* inverse projection per view pixel (x, y). Pixel (x, y) is px[y * width + x + 1].
SweepHi(data, view, proj) ==
    [width  |-> view.width,
     height |-> view.height,
     px     |-> [k \in 1..(view.width * view.height) |->
                   Composite("hi", data, proj,
                             (k - 1) % view.width, (k - 1) \div view.width)]]

\* The low-fidelity loop over the fastW x fastH working surface:
\* sx = x / fastW * view.width, sy = y / fastH * view.height.
SweepLo(data, view, proj, fastW, fastH) ==
    [width  |-> fastW,
     height |-> fastH,
     px     |-> [k \in 1..(fastW * fastH) |->
                   Composite("lo", data, proj,
                             (((k - 1) % fastW) * view.width) \div fastW,
                             (((k - 1) \div fastW) * view.height) \div fastH)]]

\* Array.prototype.join: the elements' strings with sep between them. A string is held
\* as the sequence of its pieces.
RECURSIVE join(_, _)
join(a, sep) ==
    IF Len(a) = 0 THEN <<>>
    ELSE IF Len(a) = 1 THEN <<ToString(a[1])>>
    ELSE <<ToString(a[1]), sep>> \o join(Tail(a), sep)

\* getReliefCacheKey without the scale.
getReliefCacheKeyNoScale(proj, view) ==
    join(proj.rotate, ",") \o <<":">> \o join(proj.translate, ",")
        \o <<":", ToString(view.width), ":", ToString(view.height)>>

\* getReliefCacheKey(projection, view):
\*   rot.join(",") + ":" + scl + ":" + tr.join(",") + ":" + view.width + ":" + view.height
getReliefCacheKey(proj, view) ==
    join(proj.rotate, ",") \o <<":", ToString(proj.scale), ":">>
        \o join(proj.translate, ",")
        \o <<":", ToString(view.width), ":", ToString(view.height)>>

\* reliefCanvas: null until initReliefCanvas.
NullCanvas == [el |-> FALSE, width |-> 0, height |-> 0, px |-> <<>>]

\* The observer's record of the latest relief operation. For a drawRelief call: the tier
\* flag, the arguments, what the call did ("noop", "threw", "hit", "sweep" at full
\* fidelity, "fast" for the downsampled sweep), and three facts about the state it was
\* made in: repeat (the operation before it was a full-fidelity render with the same
\* arguments), afterClear (no full-fidelity render since clearReliefCache) and
\* sameAsLastHi (the arguments of the latest full-fidelity render).
NoCall == [op |-> "none", lo |-> FALSE, result |-> "none", projection |-> <<>>,
           view |-> <<>>, repeat |-> FALSE, afterClear |-> FALSE, sameAsLastHi |-> FALSE]

NoRender == [projection |-> <<>>, view |-> <<>>]

InitRelief ==
    /\ useReliefLo = FALSE
    /\ reliefCanvas = NullCanvas
    /\ reliefFastCanvas = [el |-> FALSE, width |-> 0, height |-> 0]
    /\ reliefCache = <<>>
    /\ lastCall = NoCall
    /\ lastHi = NoRender
    /\ rendered = {}
    /\ sinceClear = FALSE

\* The observer's record of an operation other than drawRelief.
Op(name) == [NoCall EXCEPT !.op = name]

Rendered(call) == call.op = "draw" /\ ~call.lo /\ call.result \in {"hit", "sweep"}

\* The observer's record of a drawRelief call.
Draw(view, proj, result) ==
    [op |-> "draw", lo |-> useReliefLo, result |-> result,
     projection |-> proj, view |-> view,
     repeat |-> /\ ~useReliefLo
                /\ Rendered(lastCall)
                /\ lastCall.projection = proj
                /\ lastCall.view = view,
     afterClear |-> ~useReliefLo /\ sinceClear,
     sameAsLastHi |-> ~useReliefLo /\ lastHi = [projection |-> proj, view |-> view]]

\* initReliefCanvas(view): find or create the canvas, size it to the view (which resets
\* its bitmap to transparent), create the fast canvas, size it to 0.25 of the view.
initReliefCanvas(view) ==
    /\ reliefCanvas' = [el |-> TRUE, width |-> view.width, height |-> view.height,
                        px |-> [k \in 1..(view.width * view.height) |-> Transparent]]
    /\ reliefFastCanvas' = [el |-> TRUE, width |-> Round(view.width, 4),
                            height |-> Round(view.height, 4)]
    /\ lastCall' = Op("init")
    /\ UNCHANGED <<useReliefLo, reliefCache, lastHi, rendered, sinceClear>>
    /\ UNCHANGED <<loadVars, globeVars>>

\* The caller sets globe.useReliefLo.
setUseReliefLo(b) ==
    /\ useReliefLo # b
    /\ useReliefLo' = b
    /\ lastCall' = Op("toggle")
    /\ UNCHANGED <<reliefCanvas, reliefFastCanvas, reliefCache, lastHi, rendered, sinceClear>>
    /\ UNCHANGED <<loadVars, globeVars>>

\* ctx.clearRect(0, 0, w, h) on a canvas.
clearRect(canvas, w, h) ==
    [canvas EXCEPT !.px = [k \in DOMAIN canvas.px |->
        IF (k - 1) % canvas.width < w /\ (k - 1) \div canvas.width < h
        THEN Transparent ELSE canvas.px[k]]]

\* ctx.putImageData(img, 0, 0): the image's pixels replace the canvas pixels they cover.
putImageData(canvas, img) ==
    [canvas EXCEPT !.px = [k \in DOMAIN canvas.px |->
        LET x == (k - 1) % canvas.width
            y == (k - 1) \div canvas.width
        IN  IF x < img.width /\ y < img.height THEN img.px[y * img.width + x + 1]
            ELSE canvas.px[k]]]

\* ctx.drawImage(fast, 0, 0, w, h) with imageSmoothingEnabled = false onto a cleared
\* rectangle: each covered pixel takes the nearest pixel of the fast surface.
drawImage(canvas, fast, w, h) ==
    [canvas EXCEPT !.px = [k \in DOMAIN canvas.px |->
        LET x == (k - 1) % canvas.width
            y == (k - 1) \div canvas.width
        IN  IF x < w /\ y < h
            THEN fast.px[((y * fast.height) \div h) * fast.width + ((x * fast.width) \div w) + 1]
            ELSE canvas.px[k]]]

\* var cached = this.reliefCache[cacheKey];
\* cached && cached.width === view.width && cached.height === view.height
CacheHit(cache, cacheKey, view) ==
    /\ cacheKey \in DOMAIN cache
    /\ cache[cacheKey].width = view.width
    /\ cache[cacheKey].height = view.height

\* A store that keeps only the newest entry.
CacheStoreSingle(cache, cacheKey, outImg) == [k \in {cacheKey} |-> outImg]

\* A store that is left out.
CacheStoreNone(cache, cacheKey, outImg) == cache

\* this.reliefCache[cacheKey] = outImg
CacheStore(cache, cacheKey, outImg) ==
    [k \in DOMAIN cache \cup {cacheKey} |-> IF k = cacheKey THEN outImg ELSE cache[k]]

\* The readiness test left out.
NotReadyNever(relief) == FALSE

\* if (!relief.loaded || !relief.data) return;
NotReady(relief) == ~relief.loaded \/ relief.data = "null"

\* The cache lookup made on both tiers.
ReadsCacheAlways(lo) == TRUE

\* if (!this.useReliefLo) { ... lookup ... }: only the full-fidelity path reads the cache.
ReadsCache(lo) == ~lo

\* drawRelief(view, projection)
drawRelief(view, proj) ==
    LET relief   == IF useReliefLo THEN reliefLo ELSE reliefHi
        cacheKey == getReliefCacheKey(proj, view)
        cleared  == clearRect(reliefCanvas, view.width, view.height)
        fastW    == reliefFastCanvas.width
        fastH    == reliefFastCanvas.height
    IN  /\ UNCHANGED <<loadVars, globeVars>>
        /\ UNCHANGED <<useReliefLo, reliefFastCanvas>>
        /\ IF NotReady(relief)
           THEN \* not loaded: return before anything is touched
                /\ lastCall' = Draw(view, proj, "noop")
                /\ UNCHANGED <<reliefCanvas, reliefCache, lastHi, rendered, sinceClear>>
           ELSE IF ~reliefCanvas.el
           THEN \* this.reliefCanvas is null: getContext raises a TypeError
                /\ lastCall' = Draw(view, proj, "threw")
                /\ UNCHANGED <<reliefCanvas, reliefCache, lastHi, rendered, sinceClear>>
           ELSE IF ReadsCache(useReliefLo) /\ CacheHit(reliefCache, cacheKey, view)
           THEN \* cache hit: blit the cached buffer
                /\ reliefCanvas' = putImageData(cleared, reliefCache[cacheKey])
                /\ lastCall' = Draw(view, proj, "hit")
                /\ lastHi' = [projection |-> proj, view |-> view]
                /\ rendered' = rendered \cup {[projection |-> proj, view |-> view]}
                /\ sinceClear' = FALSE
                /\ UNCHANGED reliefCache
           ELSE IF useReliefLo
           THEN IF fastW = 0 \/ fastH = 0
                THEN \* createImageData(0, h) raises an IndexSizeError
                     /\ reliefCanvas' = cleared
                     /\ lastCall' = Draw(view, proj, "threw")
                     /\ UNCHANGED <<reliefCache, lastHi, rendered, sinceClear>>
                ELSE /\ reliefCanvas' =
                          drawImage(cleared,
                                    SweepLo(relief.data, view, proj, fastW, fastH),
                                    view.width, view.height)
                     /\ lastCall' = Draw(view, proj, "fast")
                     /\ UNCHANGED <<reliefCache, lastHi, rendered, sinceClear>>
           ELSE LET outImg == SweepHi(relief.data, view, proj)
                IN  /\ reliefCanvas' = putImageData(cleared, outImg)
                    /\ reliefCache' = CacheStore(reliefCache, cacheKey, outImg)
                    /\ lastCall' = Draw(view, proj, "sweep")
                    /\ lastHi' = [projection |-> proj, view |-> view]
                    /\ rendered' = rendered \cup {[projection |-> proj, view |-> view]}
                    /\ sinceClear' = FALSE

\* A clear that leaves the entries in place.
KeepCache == reliefCache

\* this.reliefCache = {}
EmptyCache == <<>>

\* clearReliefCache()
clearReliefCache ==
    /\ reliefCache' = EmptyCache
    /\ lastCall' = Op("clear")
    /\ sinceClear' = TRUE
    /\ rendered' = {}
    /\ UNCHANGED <<useReliefLo, reliefCanvas, reliefFastCanvas, lastHi>>
    /\ UNCHANGED <<loadVars, globeVars>>

\* The views drawRelief and initReliefCanvas are called with.
Views == {[width |-> 8, height |-> 4], [width |-> 4, height |-> 4]}

\* The projection states drawRelief is called with.
Projections ==
    {[rotate |-> <<0, 0, 0>>, scale |-> 1, translate |-> <<4, 2>>],
     [rotate |-> <<0, 0, 0>>, scale |-> 2, translate |-> <<4, 2>>],
     [rotate |-> <<90, 0, 0>>, scale |-> 1, translate |-> <<2, 2>>]}

----------------------------------------------------------------------------
(* The globe's projection and the manipulator *)

\* Numbers of the projection are fixed-point: rotate in thousandths of a degree, scale
\* in tenths of a pixel, precision in tenths of a degree, translate in pixels.

\* newProjection(view) of three of the registered variants: the default rotation
\* (currentPosition() taken at a zero timezone offset) and the precision. scale and
\* translate are the d3 projection defaults (150 and [480, 250]).
newProjection(v) ==
    CASE v = "stereographic" ->
           [rotate |-> <<-43000, -20000, 0>>, scale |-> 1500, translate |-> <<480, 250>>,
            precision |-> 10]
      [] v = "atlantis" ->
           [rotate |-> <<30000, -45000, 90000>>, scale |-> 1500,
            translate |-> <<480, 250>>, precision |-> 1]
      [] OTHER ->
           [rotate |-> <<0, 0, 0>>, scale |-> 1500, translate |-> <<480, 250>>,
            precision |-> 1]

Variants == {"atlantis", "equirectangular", "stereographic"}

\* No call on the globe yet.
NoOp == [op |-> "none"]

\* No clampedBounds call yet.
NoRect == [called |-> FALSE]

\* newGlobe(source, view): result.projection = result.newProjection(view)
InitGlobe ==
    /\ variant \in Variants
    /\ projection = newProjection(variant)
    /\ sessions = <<>>
    /\ misuse = FALSE
    /\ lastOp = NoOp
    /\ fitted = {}
    /\ rect = NoRect

\* The precision read after the boost instead of before it.
OriginalAfterBoost(p) == p.precision * 10

\* var original = projection.precision();
Original(p) == p.precision

\* projection.precision(original * 10);
Boosted(original) == original * 10

\* Some session is between manipulator() and its end().
Active == \E i \in DOMAIN sessions : ~sessions[i].ended

\* scaleExtent(): [100, 10000], in tenths of a pixel.
scaleExtent == <<1000, 100000>>

\* µ.clamp(x, low, high)
clamp(x, low, high) == IF x < low THEN low ELSE IF x > high THEN high ELSE x

\* manipulator(startMouse, startScale): the closure of a drag/zoom session.
\*   sensitivity = 60 / startScale
\*   rotation = [rotate()[0] / sensitivity, -rotate()[1] / sensitivity]
\* rotation is held exactly as rotate()[k] * startScale, which is 600000 times its
\* value in pixels (thousandths of a degree times tenths of a pixel, over 60).
\* startRotate is an observer's note of rotate() at the call.
manipulator(startMouse, startScale) ==
    LET original == Original(projection)
    IN  /\ sessions' = Append(sessions,
               [startMouse |-> startMouse, startScale |-> startScale,
                rotation |-> <<projection.rotate[1] * startScale,
                               -projection.rotate[2] * startScale>>,
                original |-> original, ended |-> FALSE, moved |-> FALSE,
                startRotate |-> projection.rotate])
        /\ projection' = [projection EXCEPT !.precision = Boosted(original)]
        /\ misuse' = (misuse \/ Active)
        /\ UNCHANGED <<variant, fitted, rect>>
        /\ UNCHANGED <<loadVars, reliefVars>>

\* The scale limited to the zoom range before it is set.
zoomClamped(scale) == clamp(scale, scaleExtent[1], scaleExtent[2])

\* projection.scale(scale): the scale move() sets is the one it is passed.
zoom(scale) == scale

\* The drag measured from the rotation at the time of the move.
moveRotateFromCurrent(s, mouse, rotate) ==
    IF mouse # <<>>
    THEN <<rotate[1] + (600000 * (mouse[1] - s.startMouse[1])) \div s.startScale,
           rotate[2] - (600000 * (mouse[2] - s.startMouse[2])) \div s.startScale,
           rotate[3]>>
    ELSE rotate

\* A move without a position taken as a move to the starting position.
moveRotateAlways(s, mouse, rotate) ==
    LET at == IF mouse # <<>> THEN mouse ELSE s.startMouse
        xd == 600000 * (at[1] - s.startMouse[1]) + s.rotation[1]
        yd == 600000 * (at[2] - s.startMouse[2]) + s.rotation[2]
    IN  <<xd \div s.startScale, -(yd \div s.startScale), rotate[3]>>

\* The rotation move() leaves, rotate being projection.rotate() before it:
\*   if (mouse) {
\*     xd = mouse[0] - startMouse[0] + rotation[0]; yd likewise
\*     projection.rotate([xd * sensitivity, -yd * sensitivity, projection.rotate()[2]])
\*   }
moveRotate(s, mouse, rotate) ==
    IF mouse # <<>>
    THEN LET xd == 600000 * (mouse[1] - s.startMouse[1]) + s.rotation[1]
             yd == 600000 * (mouse[2] - s.startMouse[2]) + s.rotation[2]
         IN  <<xd \div s.startScale, -(yd \div s.startScale), rotate[3]>>
    ELSE rotate

\* move(mouse, scale) of session i; mouse is <<>> when no position is passed. The
\* rotation, then projection.scale(scale).
move(i, mouse, scale) ==
    LET rot == moveRotate(sessions[i], mouse, projection.rotate)
    IN  /\ projection' = [projection EXCEPT !.rotate = rot, !.scale = zoom(scale)]
        /\ sessions' = [sessions EXCEPT ![i].moved = TRUE]
        /\ UNCHANGED <<variant, misuse, fitted, rect>>
        /\ UNCHANGED <<loadVars, reliefVars>>

\* The precision put back by dividing the current one by ten.
RestoredByDivision(session) == projection.precision \div 10

\* The precision end() writes: the value the closure saved.
Restored(session) == session.original

\* end() of session i: projection.precision(original)
end(i) ==
    /\ projection' = [projection EXCEPT !.precision = Restored(sessions[i])]
    /\ sessions' = [sessions EXCEPT ![i].ended = TRUE]
    /\ misuse' = (misuse \/ sessions[i].ended)
    /\ UNCHANGED <<variant, fitted, rect>>
    /\ UNCHANGED <<loadVars, reliefVars>>

\* Pointer positions and zoom scales (100 and 300 pixels, in tenths) of the gestures
\* explored. Drags are multiples of five pixels, which the sensitivities 60/100 and
\* 60/300 turn into whole degrees.
Mice == {<<0, 0>>, <<5, 5>>}

Scales == {1000, 3000}

----------------------------------------------------------------------------
(* Orientation strings, fit and center *)

\* An orientation string is the sequence of its comma-separated fields. A field is a
\* decimal literal (sign, and magnitude in thousandths), the empty string, the text
\* "Infinity", or any other text.
Num(neg, mag) == [k |-> "num", neg |-> neg, mag |-> mag]

Empty == [k |-> "empty"]

Infinite == [k |-> "infinity"]

Word == [k |-> "word"]

\* parts[k] of o.split(","): undefined past the last field.
Part(parts, k) == IF k <= Len(parts) THEN parts[k] ELSE [k |-> "undefined"]

\* NaN and the infinities, which _.isFinite rejects.
NotFinite == [finite |-> FALSE, v |-> 0]

\* +parts[k]: the number a field converts to, in thousandths. The empty string
\* converts to 0; undefined and non-numeric text convert to NaN.
ToNumber(field) ==
    CASE field.k = "num"   -> [finite |-> TRUE,
                               v |-> IF field.neg THEN -field.mag ELSE field.mag]
      [] field.k = "empty" -> [finite |-> TRUE, v |-> 0]
      [] OTHER             -> NotFinite

isFinite(n) == n.finite

\* The magnitude cut to one decimal.
toFixedOne(x) ==
    LET mag == IF x < 0 THEN -x ELSE x
    IN  [k |-> "num", neg |-> x < 0, mag |-> (mag \div 100) * 100]

\* (x).toFixed(2) of x in thousandths: the sign, then the magnitude to the nearest
\* hundredth. A negative x that rounds to zero keeps its sign: "-0.00".
toFixed(x) ==
    LET mag == IF x < 0 THEN -x ELSE x
    IN  Num(x < 0, ((mag + 5) \div 10) * 10)

\* The decimal text of an integer n.
IntegerText(n) == Num(n < 0, (IF n < 0 THEN -n ELSE n) * 1000)

\* A view that was passed; an omitted view is undefined.
IsView(view) == "width" \in DOMAIN view

NoView == [omitted |-> TRUE]

\* center(view): [view.width / 2, view.height / 2]
center(view) == <<view.width \div 2, view.height \div 2>>

\* Width and height, in tenths of a pixel, of d3.geo.path().projection(p).bounds of the
\* sphere. The outline of the equirectangular projection is 2 pi by pi times the scale,
\* that of the Mollweide projection 4 sqrt(2) by 2 sqrt(2) times the scale; the
\* stereographic variant clips its (far larger) outline to the view.
sphereBounds(p, view) ==
    CASE variant = "stereographic" -> <<view.width * 10, view.height * 10>>
      [] variant = "atlantis"      -> <<(5657 * p.scale) \div 1000, (2828 * p.scale) \div 1000>>
      [] OTHER                     -> <<(6283 * p.scale) \div 1000, (3142 * p.scale) \div 1000>>

\* The globe's current projection measured in place of a new one.
currentProjection(view) == projection

\* var defaultProjection = this.newProjection(view);
defaultProjection(view) == newProjection(variant)

\* fit(view): hScale and vScale in thousandths, the result in tenths of a pixel
\* (rounded down).
fit(view) ==
    LET p      == defaultProjection(view)
        bounds == sphereBounds(p, view)
        hScale == (bounds[1] * 1000) \div p.scale
        vScale == (bounds[2] * 1000) \div p.scale
        h      == (view.width * 10000) \div hScale
        v      == (view.height * 10000) \div vScale
    IN  (9 * (IF h < v THEN h ELSE v)) \div 10

\* orientation(): [(-rotate[0]).toFixed(2), (-rotate[1]).toFixed(2),
\*                 Math.round(projection.scale())].join(",")
orientationText ==
    <<toFixed(-projection.rotate[1]), toFixed(-projection.rotate[2]),
      IntegerText(Round(projection.scale, 10))>>

\* The rotation with the roll reset.
decodeRotationNoRoll(lon, lat, rotate) ==
    IF isFinite(lon) /\ isFinite(lat) THEN <<-lon.v, -lat.v, 0>>
    ELSE newProjection(variant).rotate

\* The rotation left as it is when a field is not a number.
decodeRotationStay(lon, lat, rotate) ==
    IF isFinite(lon) /\ isFinite(lat) THEN <<-lon.v, -lat.v, rotate[3]>> ELSE rotate

\* _.isFinite(lon) && _.isFinite(lat) ? [-lon, -lat, rotate[2]]
\*                                    : this.newProjection(view).rotate()
decodeRotation(lon, lat, rotate) ==
    IF isFinite(lon) /\ isFinite(lat) THEN <<-lon.v, -lat.v, rotate[3]>>
    ELSE newProjection(variant).rotate

\* The scale taken as parsed.
decodeScaleUnclamped(scale, view) ==
    IF isFinite(scale) THEN scale.v \div 100 ELSE fit(view)

\* _.isFinite(scale) ? µ.clamp(scale, extent[0], extent[1]) : this.fit(view)
\* (thousandths to tenths; the strings explored carry at most one decimal of scale)
decodeScale(scale, view) ==
    IF isFinite(scale) THEN clamp(scale.v \div 100, scaleExtent[1], scaleExtent[2])
    ELSE fit(view)

\* What orientation(o, view) reads of an omitted view raises a TypeError: the
\* stereographic newProjection(view) and fit(view) read view.width in the fallbacks,
\* center(view) reads it always.
RaisesAtRotate(o, view) ==
    /\ ~IsView(view)
    /\ variant = "stereographic"
    /\ ~(isFinite(ToNumber(Part(o, 1))) /\ isFinite(ToNumber(Part(o, 2))))

RaisesAtScale(o, view) == ~IsView(view) /\ ~isFinite(ToNumber(Part(o, 3)))

Raises(o, view) == ~IsView(view)

\* orientation(o, view), o a string: rotate, then scale, then translate, up to the
\* statement that raises.
orientation(o, view) ==
    LET rotate == projection.rotate
        lon    == ToNumber(Part(o, 1))
        lat    == ToNumber(Part(o, 2))
        scale  == ToNumber(Part(o, 3))
        p1     == [projection EXCEPT !.rotate = decodeRotation(lon, lat, rotate)]
        p2     == [p1 EXCEPT !.scale = decodeScale(scale, view)]
        p3     == [p2 EXCEPT !.translate = center(view)]
    IN  /\ projection' = IF RaisesAtRotate(o, view) THEN projection
                         ELSE IF RaisesAtScale(o, view) THEN p1
                         ELSE IF Raises(o, view) THEN p2
                         ELSE p3
        /\ UNCHANGED <<variant, sessions, misuse, fitted, rect>>
        /\ UNCHANGED <<loadVars, reliefVars>>

\* The views of the globe explored.
GlobeViews == {[width |-> 800, height |-> 400], [width |-> 200, height |-> 200]}

\* The orientation strings explored: "0,0,300", "-0.004,12.346,300.5", "abc,def,ghi",
\* "", "10,abc,50", "-73.99,40.5,Infinity" and ",,20000".
Texts ==
    {<<Num(FALSE, 0), Num(FALSE, 0), Num(FALSE, 300000)>>,
     <<Num(TRUE, 4), Num(FALSE, 12346), Num(FALSE, 300500)>>,
     <<Word, Word, Word>>,
     <<Empty>>,
     <<Num(FALSE, 10000), Word, Num(FALSE, 50000)>>,
     <<Num(TRUE, 73990), Num(FALSE, 40500), Infinite>>,
     <<Empty, Empty, Num(FALSE, 20000000)>>}

\* The view fit is called with.
FitViews == {[width |-> 800, height |-> 400]}

\* Zoom scales of 50 and 300 pixels, in tenths.
ZoomScales == {500, 3000}

LoadCall == Len(calls) < MaxCalls /\ \E callback \in BOOLEAN : loadReliefImages(callback)

Arrive == \E i \in DOMAIN images : ImageArrives(i)

Loaded == \E i \in DOMAIN images : onload(i)

NextLoad ==
    \/ LoadCall
    \/ Arrive
    \/ Loaded

Init == InitLoad /\ InitRelief /\ InitGlobe

SpecLoad == Init /\ [][NextLoad]_vars

\* Every started image load completes and its load event is delivered.
FairLoad == SpecLoad /\ WF_vars(Arrive) /\ WF_vars(Loaded)

\* The relief renderer of a globe whose images are requested once.
LoadOnce == calls = <<>> /\ loadReliefImages(TRUE)

InitCanvas == \E view \in Views : initReliefCanvas(view)

Toggle == \E b \in BOOLEAN : setUseReliefLo(b)

Render == \E view \in Views, proj \in Projections : drawRelief(view, proj)

Clear == clearReliefCache

NextRelief ==
    \/ LoadOnce
    \/ Arrive
    \/ Loaded
    \/ InitCanvas
    \/ Toggle
    \/ Render
    \/ Clear

\* The relief renderer is explored on the equirectangular globe.
InitEquirectangular == Init /\ variant = "equirectangular"

SpecRelief == InitEquirectangular /\ [][NextRelief]_vars

\* The full-fidelity renderer of a globe whose images may be requested again while they
\* load: one view, one projection state.
ReloadViews == {[width |-> 4, height |-> 4]}

ReloadProjections == {[rotate |-> <<0, 0, 0>>, scale |-> 1, translate |-> <<4, 2>>]}

Resize == \E view \in ReloadViews : initReliefCanvas(view)

Redraw == \E view \in ReloadViews, proj \in ReloadProjections : drawRelief(view, proj)

NextReload ==
    \/ LoadCall
    \/ Arrive
    \/ Loaded
    \/ Resize
    \/ Redraw

SpecReload == InitEquirectangular /\ [][NextReload]_vars

Start ==
    /\ Len(sessions) < MaxSessions
    /\ \E startMouse \in Mice, startScale \in Scales : manipulator(startMouse, startScale)
    /\ UNCHANGED lastOp

Move ==
    /\ \E i \in DOMAIN sessions, mouse \in Mice \cup {<<>>}, scale \in Scales :
            move(i, mouse, scale)
    /\ UNCHANGED lastOp

End ==
    /\ \E i \in DOMAIN sessions : end(i)
    /\ UNCHANGED lastOp

NextManip ==
    \/ Start
    \/ Move
    \/ End

SpecManip == Init /\ [][NextManip]_vars

\* The globe driven through its own methods: one drag/zoom session, orientation strings
\* written and read back, and fit.
Grab ==
    /\ sessions = <<>>
    /\ manipulator(<<0, 0>>, 1000)
    /\ lastOp' = [op |-> "manipulator"]

Drag ==
    \E i \in DOMAIN sessions, mouse \in Mice \cup {<<>>}, scale \in ZoomScales :
        /\ move(i, mouse, scale)
        /\ lastOp' = [op |-> "move", i |-> i, mouse |-> mouse, scale |-> scale]

Release ==
    \E i \in DOMAIN sessions :
        /\ end(i)
        /\ lastOp' = [op |-> "end", i |-> i, again |-> sessions[i].ended]

\* The strings orientation is called with: those of Texts, and the string the getter
\* just returned.
Orient ==
    \E o \in Texts \cup (IF lastOp.op = "read" THEN {lastOp.text} ELSE {}),
       view \in GlobeViews \cup {NoView} :
        /\ orientation(o, view)
        /\ lastOp' = [op |-> "orientation", o |-> o, view |-> view,
                      raised |-> Raises(o, view)]

Encode ==
    /\ lastOp' = [op |-> "read", text |-> orientationText]
    /\ UNCHANGED <<variant, projection, sessions, misuse, fitted, rect>>
    /\ UNCHANGED <<loadVars, reliefVars>>

Fit ==
    \E view \in FitViews :
        /\ fitted' = fitted \cup {[view |-> view, scale |-> fit(view),
                                    changed |-> projection # newProjection(variant)]}
        /\ lastOp' = [op |-> "fit", view |-> view]
        /\ UNCHANGED <<variant, projection, sessions, misuse, rect>>
        /\ UNCHANGED <<loadVars, reliefVars>>

NextGlobe ==
    \/ Grab
    \/ Drag
    \/ Release
    \/ Orient
    \/ Encode
    \/ Fit

SpecGlobe == Init /\ [][NextGlobe]_vars

----------------------------------------------------------------------------
(* clampedBounds *)

\* A JavaScript number: a finite value, NaN (which undefined also converts to in
\* arithmetic), or an infinity. Finite coordinates are in tenths of a pixel.
Number(v) == [k |-> "num", v |-> v]

NaN == [k |-> "nan"]

PlusInfinity == [k |-> "inf"]

MinusInfinity == [k |-> "-inf"]

\* a <= b; false when either is NaN.
Le(a, b) ==
    /\ a.k # "nan"
    /\ b.k # "nan"
    /\ \/ a.k = "-inf"
       \/ b.k = "inf"
       \/ a.k = "num" /\ b.k = "num" /\ a.v <= b.v

\* Math.max and Math.min: NaN when either argument is NaN.
max(a, b) == IF a.k = "nan" \/ b.k = "nan" THEN NaN ELSE IF Le(a, b) THEN b ELSE a

min(a, b) == IF a.k = "nan" \/ b.k = "nan" THEN NaN ELSE IF Le(a, b) THEN a ELSE b

\* Math.floor and Math.ceil of tenths; NaN and the infinities are returned as they are.
floor(a) == IF a.k = "num" THEN Number((a.v \div 10) * 10) ELSE a

ceil(a) == IF a.k = "num" THEN Number(-(((-a.v) \div 10) * 10)) ELSE a

\* a - b
Minus(a, b) ==
    CASE a.k = "nan" \/ b.k = "nan"    -> NaN
      [] a.k = "num" /\ b.k = "num"    -> Number(a.v - b.v)
      [] a.k = b.k                     -> NaN
      [] a.k = "inf" \/ b.k = "-inf"   -> PlusInfinity
      [] OTHER                         -> MinusInfinity

\* a + 1
PlusOne(a) == IF a.k = "num" THEN Number(a.v + 10) ELSE a

\* The number returned whatever it is.
ensureNumberAsIs(num, fallback) == num

\* ensureNumber(num, fallback): num when it is finite or an infinity, else fallback.
ensureNumber(num, fallback) == IF num.k \in {"num", "inf", "-inf"} THEN num ELSE fallback

\* clampedBounds(bounds, view)
clampedBounds(bounds, view) ==
    LET upperLeft  == bounds[1]
        lowerRight == bounds[2]
        width      == Number(view.width * 10)
        height     == Number(view.height * 10)
        x    == max(floor(ensureNumber(upperLeft[1], Number(0))), Number(0))
        y    == max(floor(ensureNumber(upperLeft[2], Number(0))), Number(0))
        xMax == min(ceil(ensureNumber(lowerRight[1], width)), Minus(width, Number(10)))
        yMax == min(ceil(ensureNumber(lowerRight[2], height)), Minus(height, Number(10)))
    IN  [x |-> x, y |-> y, xMax |-> xMax, yMax |-> yMax,
         width |-> PlusOne(Minus(xMax, x)), height |-> PlusOne(Minus(yMax, y))]

\* The coordinates of the raw bounds explored: -1.5, 100.5 and 900.5 pixels, NaN and
\* the infinities.
Coordinates == {Number(-15), Number(1005), Number(9005), NaN, PlusInfinity, MinusInfinity}

\* The raw bounds and the view of a clampedBounds call that has not been made yet.
BoundsInputs ==
    {[called |-> FALSE, bounds |-> <<<<x0, y0>>, <<x1, y1>>>>, view |-> view] :
        x0 \in Coordinates, y0 \in Coordinates, x1 \in Coordinates, y1 \in Coordinates,
        view \in GlobeViews}

InitBounds ==
    /\ InitLoad
    /\ InitRelief
    /\ variant = "equirectangular"
    /\ projection = newProjection(variant)
    /\ sessions = <<>>
    /\ misuse = FALSE
    /\ lastOp = NoOp
    /\ fitted = {}
    /\ rect \in BoundsInputs

\* The call of clampedBounds.
Clamp ==
    /\ ~rect.called
    /\ rect' = [called |-> TRUE, bounds |-> rect.bounds, view |-> rect.view,
                out |-> clampedBounds(rect.bounds, rect.view)]
    /\ UNCHANGED <<variant, projection, sessions, misuse, lastOp, fitted>>
    /\ UNCHANGED <<loadVars, reliefVars>>

NextBounds == Clamp

SpecBounds == InitBounds /\ [][NextBounds]_vars

----------------------------------------------------------------------------
(* Claims *)

CacheKeys == DOMAIN reliefCache

C2_RepeatIsCacheHit ==
    [][(lastCall'.op = "draw" /\ lastCall'.repeat)
         => (lastCall'.result = "hit" /\ reliefCanvas' = reliefCanvas)]_vars

C2_Witness ==
    /\ lastCall.op = "draw"
    /\ lastCall.repeat
    /\ lastCall.result = "hit"
    /\ \E k \in DOMAIN reliefCanvas.px : reliefCanvas.px[k] # Transparent

C4_LoBypassesCache ==
    [][(lastCall' # lastCall /\ lastCall'.op = "draw" /\ lastCall'.lo)
         => /\ reliefCache' = reliefCache
            /\ lastCall'.result \in {"noop", "threw", "fast"}
            /\ (reliefLo.loaded /\ reliefCanvas.el
                  /\ reliefFastCanvas.width > 0 /\ reliefFastCanvas.height > 0)
                 => /\ lastCall'.result = "fast"
                    /\ reliefCanvas' =
                         drawImage(clearRect(reliefCanvas, lastCall'.view.width,
                                             lastCall'.view.height),
                                   SweepLo(reliefLo.data, lastCall'.view,
                                           lastCall'.projection,
                                           reliefFastCanvas.width, reliefFastCanvas.height),
                                   lastCall'.view.width, lastCall'.view.height)]_vars

C4_Witness ==
    /\ lastCall.op = "draw"
    /\ lastCall.lo
    /\ lastCall.result = "fast"
    /\ getReliefCacheKey(lastCall.projection, lastCall.view) \in CacheKeys

ImagesOf(c) == {i \in DOMAIN images : images[i].call = c}

\* C5: the callback of a loadReliefImages call is invoked at most once, and only with
\* both tiers loaded.
C5_CallbackAfterBoth ==
    \A c \in DOMAIN calls :
        /\ calls[c].invoked <= 1
        /\ calls[c].invoked >= 1 => (reliefHi.loaded /\ reliefLo.loaded)

\* A call made with one tier already loaded has had its callback invoked.
C5_Witness ==
    \E c \in DOMAIN calls : calls[c].invoked = 1 /\ Cardinality(ImagesOf(c)) = 1

Settled == \A i \in DOMAIN images : images[i].state \in {"handled", "threw"}

\* C6: once every started image load has completed and its handler has run, every
\* loadReliefImages call that passed a callback has had it invoked.
C6_EveryCallCompletes ==
    Settled => \A c \in DOMAIN calls : calls[c].callback => calls[c].invoked >= 1

Fetches(t) == {i \in DOMAIN images : images[i].tier = t}

\* C7: each tier's raster is fetched at most once.
C7_FetchedOnce == \A t \in Tiers : Cardinality(Fetches(t)) <= 1

\* C8: a drawRelief call made while the selected tier is not loaded does nothing: no
\* error, canvas and cache unchanged.
C8_NotLoadedNoop ==
    [][(/\ lastCall' # lastCall
        /\ lastCall'.op = "draw"
        /\ ~(IF lastCall'.lo THEN reliefLo ELSE reliefHi).loaded)
         => /\ lastCall'.result = "noop"
            /\ UNCHANGED <<reliefCanvas, reliefCache>>]_vars

\* The selected tier is not loaded while the other one is.
C8_Witness ==
    /\ lastCall.op = "draw"
    /\ lastCall.result = "noop"
    /\ \/ lastCall.lo /\ ~reliefLo.loaded /\ reliefHi.loaded
       \/ ~lastCall.lo /\ ~reliefHi.loaded /\ reliefLo.loaded

\* C9: after clearReliefCache the cache is empty, and the first full-fidelity render
\* after it runs the sweep.
C9_ClearForcesSweep ==
    /\ lastCall.op = "clear" => CacheKeys = {}
    /\ (Rendered(lastCall) /\ lastCall.afterClear) => lastCall.result = "sweep"

\* The render after the clear has the arguments of the last render before it.
C9_Witness ==
    /\ Rendered(lastCall)
    /\ lastCall.afterClear
    /\ lastCall.sameAsLastHi
    /\ lastCall.result = "sweep"

\* C10: while sessions do not overlap and each is ended once, the precision is 10 times
\* the value read by manipulator() during a session and that value after end(), which is
\* the precision the globe was built with.
C10_PrecisionRestored ==
    ~misuse =>
        /\ \A i \in DOMAIN sessions :
             /\ sessions[i].original = newProjection(variant).precision
             /\ ~sessions[i].ended => projection.precision = 10 * sessions[i].original
        /\ ~Active => projection.precision = newProjection(variant).precision

C10_Witness ==
    /\ ~misuse
    /\ Len(sessions) = 2
    /\ \A i \in DOMAIN sessions : sessions[i].ended /\ sessions[i].moved
    /\ projection.rotate # newProjection(variant).rotate

\* C11 as written: a second end() on a session leaves the precision different from
\* the precision that session read when manipulator() was called.
C11_SecondEndDiffers ==
    [][(lastOp'.op = "end" /\ lastOp'.again /\ lastOp' # lastOp)
          => projection'.precision # sessions[lastOp'.i].original]_vars

\* C11: a second end() on a session writes the saved precision again, without any
\* division: the precision after it equals the precision the session read at
\* manipulator(), so end() is idempotent.
C11_SecondEndRestores ==
    [][(lastOp'.op = "end" /\ lastOp'.again /\ lastOp' # lastOp)
          => projection'.precision = sessions[lastOp'.i].original]_vars

\* A session was just ended a second time.
C11_Witness ==
    /\ lastOp.op = "end"
    /\ lastOp.again
    /\ projection.precision = sessions[lastOp.i].original

InExtent(scale) == scaleExtent[1] <= scale /\ scale <= scaleExtent[2]

\* C12 as written: after orientation(text, view) the scale lies within scaleExtent(),
\* whether it was parsed or taken from the fit-to-view fallback.
C12_ScaleWithinExtent ==
    (lastOp.op = "orientation" /\ ~lastOp.raised) => InExtent(projection.scale)

\* C12: after orientation(text, view) the scale lies within scaleExtent() when the
\* scale field parses as a finite number (it is the parsed value when that lies in the
\* extent); otherwise it is fit(view), as returned.
C12_ParsedScaleClamped ==
    (lastOp.op = "orientation" /\ ~lastOp.raised) =>
        LET scale == ToNumber(Part(lastOp.o, 3))
        IN  IF isFinite(scale)
            THEN /\ InExtent(projection.scale)
                 /\ InExtent(scale.v \div 100) => projection.scale = scale.v \div 100
            ELSE projection.scale = fit(lastOp.view)

\* A scale field of 20000 was clamped to the upper end of the extent.
C12_Witness ==
    /\ lastOp.op = "orientation"
    /\ ~lastOp.raised
    /\ isFinite(ToNumber(Part(lastOp.o, 3)))
    /\ ToNumber(Part(lastOp.o, 3)).v \div 100 > scaleExtent[2]
    /\ projection.scale = scaleExtent[2]

\* C13 as written: after move(mouse, scale) the scale lies within scaleExtent().
C13_MoveScaleWithinExtent == lastOp.op = "move" => InExtent(projection.scale)

\* C13: after move(mouse, scale) the scale of the projection is the scale passed,
\* inside the extent or not.
C13_MoveScaleAsPassed == lastOp.op = "move" => projection.scale = lastOp.scale

\* A move with a scale below the extent.
C13_Witness ==
    /\ lastOp.op = "move"
    /\ lastOp.scale < scaleExtent[1]
    /\ projection.scale = lastOp.scale

FiniteLonLat(o) == isFinite(ToNumber(Part(o, 1))) /\ isFinite(ToNumber(Part(o, 2)))

\* C14: every move, and every orientation(text, view) whose longitude and latitude are
\* finite numbers, leaves the roll rotate()[2] as it was.
C14_RollKept ==
    [][(\/ lastOp'.op = "move"
        \/ lastOp'.op = "orientation" /\ FiniteLonLat(lastOp'.o))
          => projection'.rotate[3] = projection.rotate[3]]_vars

\* An orientation string with finite longitude and latitude turned a globe whose roll
\* is not zero.
C14_Witness ==
    /\ lastOp.op = "orientation"
    /\ FiniteLonLat(lastOp.o)
    /\ projection.rotate[3] # 0
    /\ projection.rotate[1] # newProjection(variant).rotate[1]

Abs(x) == IF x < 0 THEN -x ELSE x

\* orientation(orientation(), view) from a state with the scale in the extent and the
\* rotation within longitude and latitude range.
RoundTrip ==
    /\ lastOp.op = "read"
    /\ lastOp'.op = "orientation"
    /\ lastOp'.o = lastOp.text
    /\ IsView(lastOp'.view)
    /\ InExtent(projection.scale)
    /\ Abs(projection.rotate[1]) <= 180000
    /\ Abs(projection.rotate[2]) <= 90000

\* The numbers the fields of an orientation string stand for.
NumbersOf(text) == [k \in DOMAIN text |-> ToNumber(text[k])]

\* C15 as written: the round trip keeps rotate()[0] and rotate()[1] to two decimals,
\* sets the scale to its rounded value, and orientation() then returns the same string.
C15_RoundTripSameString ==
    [][RoundTrip =>
          /\ Abs(projection'.rotate[1] - projection.rotate[1]) <= 5
          /\ Abs(projection'.rotate[2] - projection.rotate[2]) <= 5
          /\ projection'.scale = 10 * Round(projection.scale, 10)
          /\ orientationText' = lastOp.text]_vars

\* C15: the round trip keeps rotate()[0] and rotate()[1] to two decimals, sets the scale
\* to its rounded value, and orientation() then returns a string of the same numbers.
C15_RoundTripSameNumbers ==
    [][RoundTrip =>
          /\ Abs(projection'.rotate[1] - projection.rotate[1]) <= 5
          /\ Abs(projection'.rotate[2] - projection.rotate[2]) <= 5
          /\ projection'.scale = 10 * Round(projection.scale, 10)
          /\ NumbersOf(orientationText') = NumbersOf(lastOp.text)]_vars

\* A round trip of a string that begins "-0.00": the string read afterwards begins
\* "0.00".
C15_Witness ==
    /\ lastOp.op = "orientation"
    /\ ~lastOp.raised
    /\ lastOp.o[1] = Num(TRUE, 0)
    /\ orientationText[1] = Num(FALSE, 0)

\* C16: orientation(text, view) with a view does not raise; a longitude or latitude that
\* is not a finite number gives the rotation of newProjection(view), a scale that is
\* not a finite number gives fit(view), and each applies whatever the other field is.
C16_FallbacksIndependent ==
    (lastOp.op = "orientation" /\ IsView(lastOp.view)) =>
        LET scale == ToNumber(Part(lastOp.o, 3))
        IN  /\ ~lastOp.raised
            /\ ~FiniteLonLat(lastOp.o)
                  => projection.rotate = newProjection(variant).rotate
            /\ FiniteLonLat(lastOp.o)
                  => /\ projection.rotate[1] = -ToNumber(Part(lastOp.o, 1)).v
                     /\ projection.rotate[2] = -ToNumber(Part(lastOp.o, 2)).v
            /\ ~isFinite(scale) => projection.scale = fit(lastOp.view)
            /\ isFinite(scale) => InExtent(projection.scale)

\* Only the scale fell back: "-73.99,40.5,Infinity".
C16_Witness ==
    /\ lastOp.op = "orientation"
    /\ IsView(lastOp.view)
    /\ FiniteLonLat(lastOp.o)
    /\ ~isFinite(ToNumber(Part(lastOp.o, 3)))
    /\ projection.rotate[1] = 73990
    /\ projection.scale = fit(lastOp.view)

\* C17: fit(view) leaves the projection as it is, and returns for a view the same scale
\* in every state it is called in.
C17_FitStable ==
    [][/\ lastOp'.op = "fit" => projection' = projection
       /\ \A a, b \in fitted' : a.view = b.view => a.scale = b.scale]_vars

\* fit was called for one view before and after the projection changed.
C17_Witness ==
    \E a, b \in fitted : a.view = b.view /\ ~a.changed /\ b.changed

\* C18: whatever the raw bounds (negative, beyond the view, NaN or undefined, infinite),
\* clampedBounds returns x >= 0, y >= 0, xMax <= view.width - 1 and
\* yMax <= view.height - 1.
C18_OuterEdgesClamped ==
    rect.called =>
        /\ Le(Number(0), rect.out.x)
        /\ Le(Number(0), rect.out.y)
        /\ Le(rect.out.xMax, Number((rect.view.width - 1) * 10))
        /\ Le(rect.out.yMax, Number((rect.view.height - 1) * 10))

\* Bounds from (NaN, -Infinity) to (Infinity, 900.5) give the whole view.
C18_Witness ==
    /\ rect.called
    /\ rect.bounds = <<<<NaN, MinusInfinity>>, <<PlusInfinity, Number(9005)>>>>
    /\ rect.out.x = Number(0)
    /\ rect.out.y = Number(0)
    /\ rect.out.xMax = Number((rect.view.width - 1) * 10)
    /\ rect.out.yMax = Number((rect.view.height - 1) * 10)

\* C19: whatever the raw bounds, clampedBounds returns width = xMax - x + 1 >= 0 and
\* height = yMax - y + 1 >= 0, with x and xMax within [0, view.width - 1] and y and yMax
\* within [0, view.height - 1].
C19_RectangleWithinView ==
    rect.called =>
        LET right  == Number((rect.view.width - 1) * 10)
            bottom == Number((rect.view.height - 1) * 10)
        IN  /\ rect.out.width = PlusOne(Minus(rect.out.xMax, rect.out.x))
            /\ rect.out.height = PlusOne(Minus(rect.out.yMax, rect.out.y))
            /\ Le(Number(0), rect.out.width)
            /\ Le(Number(0), rect.out.height)
            /\ Le(Number(0), rect.out.x) /\ Le(rect.out.x, right)
            /\ Le(Number(0), rect.out.xMax) /\ Le(rect.out.xMax, right)
            /\ Le(Number(0), rect.out.y) /\ Le(rect.out.y, bottom)
            /\ Le(Number(0), rect.out.yMax) /\ Le(rect.out.yMax, bottom)

\* The screen point whose inverse projection decides canvas pixel (x, y) of the latest
\* drawRelief call: the pixel itself at full fidelity, the sample point of the
\* working-surface pixel drawn over it at low fidelity.
SamplePoint(x, y) ==
    IF lastCall.lo
    THEN LET fx == (x * reliefFastCanvas.width) \div lastCall.view.width
             fy == (y * reliefFastCanvas.height) \div lastCall.view.height
         IN  <<(fx * lastCall.view.width) \div reliefFastCanvas.width,
               (fy * lastCall.view.height) \div reliefFastCanvas.height>>
    ELSE <<x, y>>

\* C20: after a drawRelief call that rendered, on either path, every canvas pixel of the
\* view whose screen point has an inverse projection holds the R, G, B of a pixel of
\* the tier's raster and round(0.7 * alpha) of that pixel's alpha (179 for 255); every
\* pixel whose screen point has none is transparent.
C20_AlphaAttenuated ==
    (lastCall.op = "draw" /\ lastCall.result \in {"sweep", "hit", "fast"}) =>
        LET t    == IF lastCall.lo THEN "lo" ELSE "hi"
            data == Relief(t).data
        IN  \A k \in DOMAIN reliefCanvas.px :
                LET x   == (k - 1) % reliefCanvas.width
                    y   == (k - 1) \div reliefCanvas.width
                    s   == SamplePoint(x, y)
                    out == reliefCanvas.px[k]
                IN  (x < lastCall.view.width /\ y < lastCall.view.height) =>
                        IF invert(lastCall.projection, s[1], s[2]) = <<>>
                        THEN out = Transparent
                        ELSE \E ix \in 0..(RasterSize(t).width - 1),
                                iy \in 0..(RasterSize(t).height - 1) :
                                 LET src == RasterPixel(t, data, ix, iy)
                                 IN  /\ out[1] = src[1]
                                     /\ out[2] = src[2]
                                     /\ out[3] = src[3]
                                     /\ out[4] = (7 * src[4] + 5) \div 10
                                     /\ src[4] = 255 => out[4] = 179

\* A low-fidelity render that shows an opaque source pixel and a point off the globe.
C20_Witness ==
    /\ lastCall.op = "draw"
    /\ lastCall.result = "fast"
    /\ \E k \in DOMAIN reliefCanvas.px : reliefCanvas.px[k][4] = 179
    /\ \E k \in DOMAIN reliefCanvas.px :
           /\ (k - 1) % reliefCanvas.width < lastCall.view.width
           /\ (k - 1) \div reliefCanvas.width < lastCall.view.height
           /\ LET s == SamplePoint((k - 1) % reliefCanvas.width,
                                   (k - 1) \div reliefCanvas.width)
              IN  invert(lastCall.projection, s[1], s[2]) = <<>>
           /\ reliefCanvas.px[k] = Transparent

\* C21: a move with a mouse position sets the rotation to the rotation at the start of
\* its session plus 60 / startScale degrees per pixel of the way from startMouse
\* (longitude with x, latitude against y), with the roll of the start, whatever moves
\* came before; so a move to startMouse gives the starting longitude and latitude.
C21_DragFromSessionStart ==
    [][(lastOp'.op = "move" /\ lastOp'.mouse # <<>>) =>
          LET s  == sessions[lastOp'.i]
              dx == lastOp'.mouse[1] - s.startMouse[1]
              dy == lastOp'.mouse[2] - s.startMouse[2]
          IN  /\ (projection'.rotate[1] - s.startRotate[1]) * s.startScale = 600000 * dx
              /\ (projection'.rotate[2] - s.startRotate[2]) * s.startScale = -600000 * dy
              /\ projection'.rotate[3] = s.startRotate[3]
              /\ lastOp'.mouse = s.startMouse
                    => /\ projection'.rotate[1] = s.startRotate[1]
                       /\ projection'.rotate[2] = s.startRotate[2]]_vars

\* A move to startMouse, in a session that began on a globe turned away from its
\* default rotation, gave the rotation of the session's start.
C21_Witness ==
    /\ lastOp.op = "move"
    /\ lastOp.mouse = sessions[lastOp.i].startMouse
    /\ sessions[lastOp.i].startRotate # newProjection(variant).rotate
    /\ projection.rotate = sessions[lastOp.i].startRotate

\* C22: a move without a mouse position changes the scale to the one passed and nothing
\* else of the projection; a move with a position sets the scale too.
C22_NullMouseSetsScaleOnly ==
    [][lastOp'.op = "move" =>
          /\ projection'.scale = lastOp'.scale
          /\ projection'.translate = projection.translate
          /\ projection'.precision = projection.precision
          /\ lastOp'.mouse = <<>> => projection'.rotate = projection.rotate]_vars

\* A move without a position zoomed a globe that an earlier drag had turned.
C22_Witness ==
    /\ lastOp.op = "move"
    /\ lastOp.mouse = <<>>
    /\ projection.scale = lastOp.scale
    /\ projection.rotate # sessions[lastOp.i].startRotate

\* A string of three decimal numbers.
WellFormed(o) == Len(o) = 3 /\ \A k \in 1..3 : o[k].k = "num"

\* C23: orientation(text) with a well-formed string and no view does not raise.
C23_OmittedViewCompletes ==
    (lastOp.op = "orientation" /\ ~IsView(lastOp.view) /\ WellFormed(lastOp.o))
        => ~lastOp.raised

\* C24: every entry of reliefCache is the full-fidelity composite of the high-resolution
\* raster for the projection state and view its key encodes.
C24_CacheCoherent ==
    \A K \in DOMAIN reliefCache :
        /\ \E view \in Views, proj \in Projections : K = getReliefCacheKey(proj, view)
        /\ \A view \in Views, proj \in Projections :
               K = getReliefCacheKey(proj, view)
                   => reliefCache[K] = SweepHi(reliefHi.data, view, proj)

====
